---- MODULE Spec2Model ----
(***************************************************************************)
(* Model of the adaptive-lesson decision engine (src/lib/explain.ts) and   *)
(* of the result page that calls it (src/app/result/page.tsx).             *)
(*                                                                         *)
(* The engine computes with JavaScript numbers, i.e. IEEE-754 binary64     *)
(* values rounded to nearest-even after every operation.  Winner selection *)
(* compares sums of such values, so the rounding decides ties; the model   *)
(* therefore carries numbers as exact binary64 values (sign, odd integer   *)
(* mantissa of at most 53 bits, binary exponent) and rounds after every    *)
(* operation as the hardware does.  Exponent range limits (overflow,       *)
(* subnormals) and the sign of zero are not modelled: every value the      *)
(* engine computes lies far inside the normal range and zero is only ever  *)
(* compared.                                                               *)
(*                                                                         *)
(* Strings are sequences of pieces; a piece is a literal part of a         *)
(* template, a formatted number, or one character of a user text.          *)
(***************************************************************************)
EXTENDS Integers, Sequences, FiniteSets, TLC

(***************************************************************************)
(* Natural numbers of arbitrary size: little-endian sequences of limbs     *)
(* in base 2^14, without leading zero limbs (zero is the empty sequence).  *)
(***************************************************************************)
LimbBits == 14

Base == 2^LimbBits

\* a function over 1..n as an explicit sequence
Limbs(f) == SubSeq(f, 1, Len(f))

RECURSIVE BStrip(_)
BStrip(a) ==
  IF a = <<>> THEN <<>>
  ELSE IF a[Len(a)] = 0 THEN BStrip(SubSeq(a, 1, Len(a) - 1)) ELSE a

BLimb(a, i) == IF i >= 1 /\ i <= Len(a) THEN a[i] ELSE 0

BFromNat(n) ==
  BStrip(<<n % Base, (n \div Base) % Base, n \div (Base * Base)>>)

RECURSIVE BAddFrom(_, _, _, _)
BAddFrom(a, b, i, carry) ==
  IF i > Len(a) /\ i > Len(b)
  THEN IF carry = 0 THEN <<>> ELSE <<carry>>
  ELSE LET t == BLimb(a, i) + BLimb(b, i) + carry
       IN  <<t % Base>> \o BAddFrom(a, b, i + 1, t \div Base)

BAdd(a, b) == BAddFrom(a, b, 1, 0)

\* a - b for a >= b
RECURSIVE BSubFrom(_, _, _, _)
BSubFrom(a, b, i, borrow) ==
  IF i > Len(a) THEN <<>>
  ELSE LET t == BLimb(a, i) - BLimb(b, i) - borrow
       IN  IF t < 0
           THEN <<t + Base>> \o BSubFrom(a, b, i + 1, 1)
           ELSE <<t>> \o BSubFrom(a, b, i + 1, 0)

BSub(a, b) == BStrip(BSubFrom(a, b, 1, 0))

\* -1, 0, 1 as a < b, a = b, a > b
RECURSIVE BCmpFrom(_, _, _)
BCmpFrom(a, b, i) ==
  IF i = 0 THEN 0
  ELSE IF a[i] < b[i] THEN -1
  ELSE IF a[i] > b[i] THEN 1
  ELSE BCmpFrom(a, b, i - 1)

BCmp(a, b) ==
  IF Len(a) < Len(b) THEN -1
  ELSE IF Len(a) > Len(b) THEN 1
  ELSE BCmpFrom(a, b, Len(a))

BShlLimbs(a, q) ==
  IF a = <<>> \/ q = 0 THEN a ELSE Limbs([i \in 1..q |-> 0]) \o a

\* carry propagation over column sums below 2^31
RECURSIVE BCarryFrom(_, _, _)
BCarryFrom(cols, i, carry) ==
  IF i > Len(cols)
  THEN IF carry = 0 THEN <<>> ELSE <<carry % Base, carry \div Base>>
  ELSE LET t == cols[i] + carry
       IN  <<t % Base>> \o BCarryFrom(cols, i + 1, t \div Base)

\* a * b for a of at most four limbs (Precision bits)
BMul(a, b) ==
  IF a = <<>> \/ b = <<>> THEN <<>>
  ELSE BStrip(BCarryFrom(
         Limbs([k \in 1..(Len(b) + 3) |->
            BLimb(a, 1) * BLimb(b, k) + BLimb(a, 2) * BLimb(b, k - 1)
              + BLimb(a, 3) * BLimb(b, k - 2) + BLimb(a, 4) * BLimb(b, k - 3)]),
         1, 0))

\* a * 2^n
BShl(a, n) ==
  IF n = 0 THEN a
  ELSE LET r == n % LimbBits
           m == 2^r
       IN  BShlLimbs(
             IF r = 0 THEN a
             ELSE BStrip(Limbs([i \in 1..(Len(a) + 1) |->
                           ((BLimb(a, i) * m) % Base)
                             + ((BLimb(a, i - 1) * m) \div Base)])),
             n \div LimbBits)

\* floor(a / 2^n)
BShr(a, n) ==
  IF n = 0 THEN a ELSE
  LET q == n \div LimbBits
      r == n % LimbBits
      d == IF q >= Len(a) THEN <<>> ELSE SubSeq(a, q + 1, Len(a))
  IN  BStrip(Limbs([i \in 1..Len(d) |->
               (d[i] \div 2^r) + (BLimb(d, i + 1) % 2^r) * 2^(LimbBits - r)]))

RECURSIVE LimbLen(_)
LimbLen(x) == IF x = 0 THEN 0 ELSE 1 + LimbLen(x \div 2)

\* number of significant bits
BBitLen(a) ==
  IF a = <<>> THEN 0 ELSE (Len(a) - 1) * LimbBits + LimbLen(a[Len(a)])

\* bit i (bit 0 is the least significant)
BBit(a, i) == (BLimb(a, (i \div LimbBits) + 1) \div 2^(i % LimbBits)) % 2

RECURSIVE LimbTrailingZeros(_)
LimbTrailingZeros(x) == IF x % 2 = 1 THEN 0 ELSE 1 + LimbTrailingZeros(x \div 2)

\* number of trailing zero bits of a > 0
RECURSIVE BTrailingZerosFrom(_, _)
BTrailingZerosFrom(a, i) ==
  IF a[i] = 0 THEN LimbBits + BTrailingZerosFrom(a, i + 1)
  ELSE LimbTrailingZeros(a[i])

BTrailingZeros(a) == BTrailingZerosFrom(a, 1)

\* <<floor(a / m), a mod m>> for a small m < Base
RECURSIVE BDivSmallFrom(_, _, _, _)
BDivSmallFrom(a, m, i, rem) ==
  IF i = 0 THEN <<<<>>, rem>>
  ELSE LET t    == rem * Base + a[i]
           rest == BDivSmallFrom(a, m, i - 1, t % m)
       IN  <<rest[1] \o <<t \div m>>, rest[2]>>

StripQuotient(r) == <<BStrip(r[1]), r[2]>>

BDivSmall(a, m) == StripQuotient(BDivSmallFrom(a, m, Len(a), 0))

(***************************************************************************)
(* binary64 numbers: (-1)^neg * man * 2^exp with man odd (or zero).        *)
(***************************************************************************)
Precision == 53

NumZero == [neg |-> FALSE, man |-> <<>>, exp |-> 0]

IsZero(x) == x.man = <<>>

\* n * 2^e for n > 0 with tz trailing zero bits
CanonShift(neg, n, e, tz) == [neg |-> neg, man |-> BShr(n, tz), exp |-> e + tz]

\* the canonical form of the exactly representable value n * 2^e
Canon(neg, n, e) ==
  IF n = <<>> THEN NumZero ELSE CanonShift(neg, n, e, BTrailingZeros(n))

\* the number of bits by which a significand of len bits exceeds Precision
ExcessBits(len) == IF len > Precision THEN len - Precision ELSE 0

\* the kept bits q, rounded up when the first dropped bit (guard) is set and
\* either a later dropped bit (sticky) is set or q is odd: ties to even
RoundUp(q, guard, sticky) ==
  IF guard /\ (sticky \/ BBit(q, 0) = 1) THEN BAdd(q, <<1>>) ELSE q

\* n * 2^e with the r lowest bits of n rounded away
RoundDrop(neg, n, e, r) ==
  Canon(neg,
        RoundUp(BShr(n, r),
                r > 0 /\ BBit(n, r - 1) = 1,
                r > 1 /\ BTrailingZeros(n) < r - 1),
        e + r)

\* n * 2^e rounded to the nearest value of 53 significant bits, ties to even
RoundNearestEven(neg, n, e) == RoundDrop(neg, n, e, ExcessBits(BBitLen(n)))

NumFromInt(i) == Canon(i < 0, BFromNat(IF i < 0 THEN -i ELSE i), 0)

NumNeg(x) == IF IsZero(x) THEN x ELSE [x EXCEPT !.neg = ~x.neg]

NumAbs(x) == [x EXCEPT !.neg = FALSE]

\* the smaller exponent of x and y
MinExp(x, y) == IF x.exp < y.exp THEN x.exp ELSE y.exp

\* the significand of x at exponent e <= x.exp
Aligned(x, e) == BShl(x.man, x.exp - e)

\* (-1)^xneg * a + (-1)^yneg * b, times 2^e, rounded; an exact zero is +0
AddAligned(xneg, a, yneg, b, e) ==
  RoundNearestEven(
    IF xneg = yneg \/ BCmp(a, b) > 0 THEN xneg ELSE yneg,
    IF xneg = yneg THEN BAdd(a, b)
    ELSE IF BCmp(a, b) > 0 THEN BSub(a, b)
    ELSE IF BCmp(a, b) < 0 THEN BSub(b, a)
    ELSE <<>>,
    e)

AddAt(x, y, e) == AddAligned(x.neg, Aligned(x, e), y.neg, Aligned(y, e), e)

NumAdd(x, y) ==
  IF IsZero(x) THEN y
  ELSE IF IsZero(y) THEN x
  ELSE AddAt(x, y, MinExp(x, y))

NumSub(x, y) == NumAdd(x, NumNeg(y))

NumMul(x, y) ==
  IF IsZero(x) \/ IsZero(y) THEN NumZero
  ELSE RoundNearestEven(x.neg # y.neg, BMul(x.man, y.man), x.exp + y.exp)

\* x / y for a divisor whose odd part fits one limb (the engine divides by
\* 60 and by 4; decimal literals divide by powers of ten up to 100)
DivShift == 70

\* the quotient with one more bit, set when the remainder is not zero
WithSticky(qr) == BAdd(BShl(qr[1], 1), IF qr[2] = 0 THEN <<>> ELSE <<1>>)

NumDiv(x, y) ==
  IF IsZero(x) THEN NumZero
  ELSE RoundNearestEven(x.neg # y.neg,
                        WithSticky(BDivSmall(BShl(x.man, DivShift), y.man[1])),
                        x.exp - y.exp - DivShift - 1)

\* the sign of x - y for x and y of one sign, neither zero
CmpAt(x, y, e) ==
  IF x.neg THEN BCmp(Aligned(y, e), Aligned(x, e))
  ELSE BCmp(Aligned(x, e), Aligned(y, e))

\* the sign of the exact difference x - y: -1, 0 or 1
NumCmp(x, y) ==
  IF IsZero(x) /\ IsZero(y) THEN 0
  ELSE IF IsZero(x) THEN (IF y.neg THEN 1 ELSE -1)
  ELSE IF IsZero(y) THEN (IF x.neg THEN -1 ELSE 1)
  ELSE IF x.neg # y.neg THEN (IF x.neg THEN -1 ELSE 1)
  ELSE CmpAt(x, y, MinExp(x, y))

NumLt(x, y) == NumCmp(x, y) < 0

NumGt(x, y) == NumCmp(x, y) > 0

\* a decimal literal p/q of the source text, q a power of ten
NumLit(p, q) == NumDiv(NumFromInt(p), NumFromInt(q))

MathMax(x, y) == IF NumLt(x, y) THEN y ELSE x

MathMin(x, y) == IF NumLt(y, x) THEN y ELSE x

(***************************************************************************)
(* Text.  A user text is a sequence of one-character strings.  The source  *)
(* text's typographic characters are written in ASCII: the bullet as "|",  *)
(* the arrow as "->", curly quotes as straight ones, dashes as "-"/"--".   *)
(***************************************************************************)
UpperCase ==
  <<"A", "B", "C", "D", "E", "F", "G", "H", "I", "J", "K", "L", "M",
    "N", "O", "P", "Q", "R", "S", "T", "U", "V", "W", "X", "Y", "Z">>

LowerCase ==
  <<"a", "b", "c", "d", "e", "f", "g", "h", "i", "j", "k", "l", "m",
    "n", "o", "p", "q", "r", "s", "t", "u", "v", "w", "x", "y", "z">>

WhiteSpace == {" ", "\t", "\n"}

toLowerCase(s) ==
  [i \in 1..Len(s) |->
     IF \E j \in 1..Len(UpperCase) : UpperCase[j] = s[i]
     THEN LowerCase[CHOOSE j \in 1..Len(UpperCase) : UpperCase[j] = s[i]]
     ELSE s[i]]

RECURSIVE trimStart(_)
trimStart(s) ==
  IF s # <<>> /\ s[1] \in WhiteSpace THEN trimStart(Tail(s)) ELSE s

RECURSIVE trimEnd(_)
trimEnd(s) ==
  IF s # <<>> /\ s[Len(s)] \in WhiteSpace
  THEN trimEnd(SubSeq(s, 1, Len(s) - 1)) ELSE s

trim(s) == trimEnd(trimStart(s))

includes(s, k) ==
  \E i \in 0..(Len(s) - Len(k)) : SubSeq(s, i + 1, i + Len(k)) = k

\* a || b on strings: the empty string is falsy
OrElse(a, b) == IF a = <<>> THEN b ELSE a

normalize(s) == trim(OrElse(s, <<>>))

AdvancedKeywords ==
  {<<"a", "d", "v", "a", "n", "c", "e", "d">>,
   <<"a", "d", "v", "a", "n", "c", "e">>,
   <<"e", "x", "p", "e", "r", "t">>,
   <<"c", "o", "m", "f", "o", "r", "t", "a", "b", "l", "e">>,
   <<"s", "t", "r", "o", "n", "g">>}

BeginnerKeywords ==
  {<<"b", "e", "g", "i", "n", "n", "e", "r">>,
   <<"n", "e", "w">>,
   <<"n", "e", "v", "e", "r">>,
   <<"n", "o", "t", " ", "m", "u", "c", "h">>,
   <<"b", "a", "s", "i", "c">>,
   <<"l", "i", "t", "t", "l", "e">>}

ExamplesKeywords ==
  {<<"e", "x", "a", "m", "p", "l", "e">>,
   <<"p", "r", "a", "c", "t", "i", "c", "e">>,
   <<"e", "x", "e", "r", "c", "i", "s", "e">>,
   <<"p", "r", "o", "b", "l", "e", "m">>,
   <<"q", "u", "i", "z">>}

VisualKeywords ==
  {<<"d", "i", "a", "g", "r", "a", "m">>,
   <<"v", "i", "s", "u", "a", "l">>,
   <<"c", "h", "a", "r", "t">>,
   <<"g", "r", "a", "p", "h">>,
   <<"p", "i", "c", "t", "u", "r", "e">>}

(***************************************************************************)
(* src/lib/shared.ts                                                       *)
(***************************************************************************)
LessonStyle == {"text", "visual", "quiz"}

DECISION_POLICY_VERSION == "v1.3.0 -- confidence-weighted"

(***************************************************************************)
(* src/lib/explain.ts: numeric literals                                    *)
(***************************************************************************)
weights ==
  [delta          |-> NumLit(45, 100),
   confidence     |-> NumLit(35, 100),
   priorKnowledge |-> NumLit(15, 100),
   startingStyle  |-> NumLit(5, 100)]

\* the numeric literals of the source text
Zero == NumFromInt(0)

One == NumFromInt(1)

Two == NumFromInt(2)

Four == NumFromInt(4)

Sixty == NumFromInt(60)

Half == NumLit(5, 10)

Quarter == NumLit(25, 100)

SixTenths == NumLit(6, 10)

OverQuiz == NumLit(8, 100)

OverText == NumLit(5, 100)

OverVisual == NumLit(3, 100)

UnderQuiz == NumLit(7, 100)

UnderText == NumLit(4, 100)

UnderVisual == NumLit(3, 100)

(***************************************************************************)
(* src/lib/explain.ts: signal normalisation                                *)
(***************************************************************************)
\* clamp applied to a number that is not an integer
clamp(n, min, max) == MathMax(min, MathMin(max, n))

\* mutant of clampInt: the value is used as given
clampIntMissing(n, min, max) == n

\* clamp applied to integers, which binary64 represents exactly
clampInt(n, min, max) ==
  LET lo == IF max < n THEN max ELSE n
  IN  IF min < lo THEN lo ELSE min

mentions(lower, keywords) == \E k \in keywords : includes(lower, k)

detectKnowledgeSignals(priorKnowledgeRaw) ==
  LET priorKnowledge == normalize(priorKnowledgeRaw)
      lower          == toLowerCase(priorKnowledge)
  IN  [priorKnowledge   |-> priorKnowledge,
       isEmpty          |-> Len(priorKnowledge) = 0,
       mentionsAdvanced |-> mentions(lower, AdvancedKeywords),
       mentionsBeginner |-> mentions(lower, BeginnerKeywords),
       mentionsExamples |-> mentions(lower, ExamplesKeywords),
       mentionsVisual   |-> mentions(lower, VisualKeywords)]

confidenceLabel(confidence) ==
  LET c == clampInt(confidence, 1, 5)
  IN  IF c <= 2 THEN "low" ELSE IF c = 3 THEN "medium" ELSE "high"

confidenceScore(confidence) ==
  LET c == clampInt(confidence, 1, 5)
  IN  NumDiv(NumFromInt(c - 1), Four)

\* mutant of deltaBand: the band limits are inclusive
deltaBandInclusive(delta) ==
  IF delta <= 20 THEN "small" ELSE IF delta <= 40 THEN "moderate" ELSE "large"

deltaBand(delta) ==
  IF delta < 20 THEN "small" ELSE IF delta < 40 THEN "moderate" ELSE "large"

\* deltaScore for a delta given as a binary64 number
deltaScoreOf(delta) == clamp(NumDiv(delta, Sixty), Zero, One)

deltaScore(delta) == deltaScoreOf(NumFromInt(delta))

styleLabel(style) ==
  CASE style = "visual" -> "visual explanations"
    [] style = "text"   -> "step-by-step text explanations"
    [] style = "quiz"   -> "guided quizzes"

nextStepPreview(style, topic) ==
  LET t == OrElse(normalize(topic), <<"this topic">>)
  IN  CASE style = "visual" ->
             <<"Next up: a visual walkthrough of ">> \o t
               \o <<" using simple diagrams and annotated examples.">>
        [] style = "text" ->
             <<"Next up: a clear, structured explanation of ">> \o t
               \o <<", with short checkpoints to confirm understanding.">>
        [] style = "quiz" ->
             <<"Next up: short quiz-style prompts on ">> \o t
               \o <<" so you can apply the idea and spot gaps quickly.">>

\* mutant of knowledgeLabel: an advanced keyword wins over a beginner keyword
knowledgeLabelAdvancedFirst(priorKnowledgeRaw) ==
  LET k == detectKnowledgeSignals(priorKnowledgeRaw)
  IN  IF k.isEmpty THEN "unknown"
      ELSE IF k.mentionsAdvanced THEN "advanced"
      ELSE IF k.mentionsBeginner THEN "beginner"
      ELSE "mixed"

knowledgeLabel(priorKnowledgeRaw) ==
  LET k == detectKnowledgeSignals(priorKnowledgeRaw)
  IN  IF k.isEmpty THEN "unknown"
      ELSE IF k.mentionsAdvanced /\ ~k.mentionsBeginner THEN "advanced"
      ELSE IF k.mentionsBeginner /\ ~k.mentionsAdvanced THEN "beginner"
      ELSE "mixed"

\* mutant of detectCalibration: either band alone raises the flag
detectCalibrationEither(confidence, delta) ==
  LET confBand == confidenceLabel(confidence)
      dBand    == deltaBand(delta)
  IN  [confBand         |-> confBand,
       dBand            |-> dBand,
       isOverconfident  |-> confBand = "high" \/ dBand = "small",
       isUnderconfident |-> confBand = "low" \/ dBand = "large"]

detectCalibration(confidence, delta) ==
  LET confBand == confidenceLabel(confidence)
      dBand    == deltaBand(delta)
  IN  [confBand         |-> confBand,
       dBand            |-> dBand,
       isOverconfident  |-> confBand = "high" /\ dBand = "small",
       isUnderconfident |-> confBand = "low" /\ dBand = "large"]

(***************************************************************************)
(* src/lib/explain.ts: decideNextStyle                                     *)
(***************************************************************************)
\* scores[s] += x
Bump(scores, s, x) == [scores EXCEPT ![s] = NumAdd(@, x)]

\* scores[s] -= x
Drop(scores, s, x) == [scores EXCEPT ![s] = NumSub(@, x)]

\* 1 - Math.abs(n - 0.5) * 2
MidPeak(n) == NumSub(One, NumMul(NumAbs(NumSub(n, Half)), Two))

\* weights.delta * (1 - deltaN): the delta term of scores.visual
visualDeltaTerm(deltaN) == NumMul(weights.delta, NumSub(One, deltaN))

\* mutant of quizDeltaTerm: the term peaks at mid deltas, as the text term
quizDeltaTermMidPeak(deltaN) == NumMul(weights.delta, MidPeak(deltaN))

\* weights.delta * deltaN: the delta term of scores.quiz
quizDeltaTerm(deltaN) == NumMul(weights.delta, deltaN)

\* mutant of weightedScores: the starting style is penalised, not preferred
weightedScoresChurn(confN, deltaN, kLabel, startingStyle) ==
  LET s0 == [s \in LessonStyle |-> NumZero]
      s1 == Bump(s0, "visual", visualDeltaTerm(deltaN))
      s2 == Bump(s1, "text", NumMul(weights.delta, MidPeak(deltaN)))
      s3 == Bump(s2, "quiz", quizDeltaTerm(deltaN))
      s4 == Bump(s3, "visual", NumMul(weights.confidence, NumSub(One, confN)))
      s5 == Bump(s4, "text", NumMul(weights.confidence, MidPeak(confN)))
      s6 == Bump(s5, "quiz", NumMul(weights.confidence, confN))
      s7 == Bump(s6,
                 IF kLabel = "advanced" THEN "quiz"
                 ELSE IF kLabel = "beginner" \/ kLabel = "unknown"
                 THEN "visual" ELSE "text",
                 NumMul(weights.priorKnowledge, One))
  IN  Drop(s7, startingStyle, weights.startingStyle)

\* the scores after the delta, confidence, prior-knowledge and
\* starting-style terms, before the calibration adjustment
weightedScores(confN, deltaN, kLabel, startingStyle) ==
  LET s0 == [s \in LessonStyle |-> NumZero]
      s1 == Bump(s0, "visual", visualDeltaTerm(deltaN))
      s2 == Bump(s1, "text", NumMul(weights.delta, MidPeak(deltaN)))
      s3 == Bump(s2, "quiz", quizDeltaTerm(deltaN))
      s4 == Bump(s3, "visual", NumMul(weights.confidence, NumSub(One, confN)))
      s5 == Bump(s4, "text", NumMul(weights.confidence, MidPeak(confN)))
      s6 == Bump(s5, "quiz", NumMul(weights.confidence, confN))
      s7 == Bump(s6,
                 IF kLabel = "advanced" THEN "quiz"
                 ELSE IF kLabel = "beginner" \/ kLabel = "unknown"
                 THEN "visual" ELSE "text",
                 NumMul(weights.priorKnowledge, One))
  IN  Bump(s7, startingStyle, weights.startingStyle)

adjustOverconfident(scores) ==
  Bump(Bump(Drop(scores, "quiz", OverQuiz), "text", OverText),
       "visual", OverVisual)

adjustUnderconfident(scores) ==
  Drop(Drop(Bump(scores, "quiz", UnderQuiz), "text", UnderText),
       "visual", UnderVisual)

ordered == <<"text", "visual", "quiz">>

\* mutant of pickFrom: an equal score replaces the current best
RECURSIVE pickFromLast(_, _, _)
pickFromLast(scores, i, best) ==
  IF i > Len(ordered) THEN best
  ELSE pickFromLast(scores, i + 1,
                    IF ~NumLt(scores[ordered[i]], scores[best])
                    THEN ordered[i] ELSE best)

\* the loop over ordered, from position i with the current best
RECURSIVE pickFrom(_, _, _)
pickFrom(scores, i, best) ==
  IF i > Len(ordered) THEN best
  ELSE pickFrom(scores, i + 1,
                IF NumGt(scores[ordered[i]], scores[best])
                THEN ordered[i] ELSE best)

pickNextStyle(scores) == pickFrom(scores, 1, ordered[1])

\* mutant of influence: the magnitudes of delta and confidence lose their
\* floor of 0.25
influenceNoFloor(confN, deltaN, kLabel) ==
      [delta          |-> NumMul(weights.delta, NumAbs(NumSub(deltaN, Half))),
       confidence     |-> NumMul(weights.confidence, NumAbs(NumSub(confN, Half))),
       priorKnowledge |-> NumMul(weights.priorKnowledge,
                                 IF kLabel = "mixed" THEN SixTenths ELSE One),
       startingStyle  |-> weights.startingStyle]

influence(confN, deltaN, kLabel) ==
      [delta          |-> NumMul(weights.delta,
                                 NumAdd(NumAbs(NumSub(deltaN, Half)), Quarter)),
       confidence     |-> NumMul(weights.confidence,
                                 NumAdd(NumAbs(NumSub(confN, Half)), Quarter)),
       priorKnowledge |-> NumMul(weights.priorKnowledge,
                                 IF kLabel = "mixed" THEN SixTenths ELSE One),
       startingStyle  |-> weights.startingStyle]

\* if (calibration.isOverconfident) { ... }
ifOverconfident(calibration, scores) ==
  IF calibration.isOverconfident THEN adjustOverconfident(scores) ELSE scores

\* if (calibration.isUnderconfident) { ... }
ifUnderconfident(calibration, scores) ==
  IF calibration.isUnderconfident THEN adjustUnderconfident(scores) ELSE scores

\* return { nextStyle, scores, contributions }
decisionOf(scores, contributions) ==
  [nextStyle     |-> pickNextStyle(scores),
   scores        |-> scores,
   contributions |-> contributions]

\* decideNextStyle from the four values it first derives from its input
decideFrom(confN, deltaN, kLabel, calibration, startingStyle) ==
  decisionOf(
    ifUnderconfident(calibration,
      ifOverconfident(calibration,
        weightedScores(confN, deltaN, kLabel, startingStyle))),
    influence(confN, deltaN, kLabel))

decideNextStyle(input) ==
  decideFrom(confidenceScore(input.confidence),
             deltaScore(input.delta),
             knowledgeLabel(input.priorKnowledge),
             detectCalibration(input.confidence, input.delta),
             input.startingStyle)

decisionTitle(style) ==
  CASE style = "visual" -> "Increase guidance with visuals"
    [] style = "text"   -> "Keep a steady, structured explanation"
    [] style = "quiz"   -> "Shift toward practice with quizzes"

(***************************************************************************)
(* src/lib/explain.ts: buildExplainability                                 *)
(***************************************************************************)
Separator == <<" ", "|", " ">>

confidenceReason(conf, confBand) ==
  <<"Based on your confidence level (", ToString(conf), "/5, ", confBand,
    "), the system adjusted guidance vs. practice.">>

knowledgeReason(k) ==
  IF k.isEmpty
  THEN <<"Because your prior knowledge response was brief, the system assumed we should validate foundations before moving fast.">>
  ELSE IF k.mentionsAdvanced /\ ~k.mentionsBeginner
  THEN <<"Because your prior knowledge indicates familiarity (\"">>
         \o k.priorKnowledge
         \o <<"\"), the system inferred you can handle less repetition.">>
  ELSE IF k.mentionsBeginner /\ ~k.mentionsAdvanced
  THEN <<"Because your prior knowledge indicates you're early in the topic (\"">>
         \o k.priorKnowledge
         \o <<"\"), the system inferred you'll benefit from clearer scaffolding.">>
  ELSE <<"Because your prior knowledge indicates mixed familiarity (\"">>
         \o k.priorKnowledge
         \o <<"\"), the system inferred we should balance explanation with checks.">>

deltaReason(delta, dBand) ==
  <<"The system inferred that your learning delta (+", ToString(delta),
    ") is ", dBand, ", which determines how strongly it adapts the format.">>

overconfidenceReason ==
  <<"Confidence calibration: your confidence reads as high, but the learning delta is small. The system treated this as a signal to add explanation before more practice.">>

underconfidenceReason ==
  <<"Confidence calibration: your confidence reads as low, but the learning delta is large. The system treated this as a signal to introduce practice earlier than your self-report suggests.">>

visualAffinityReason(topic) ==
  <<"You mentioned visual learning cues, so the system prioritized diagrams to reduce cognitive load for ">>
    \o topic \o <<".">>

practiceReadinessReason ==
  <<"Because you signaled readiness for practice, the system moved toward application-focused questions rather than more explanation.">>

\* Object.entries(contributions): the keys in insertion order
contributionKeys == <<"delta", "confidence", "priorKnowledge", "startingStyle">>

\* mutant of insertSorted: the comparator is a[1] - b[1]
RECURSIVE insertSortedAscending(_, _, _)
insertSortedAscending(contributions, x, sorted) ==
  IF sorted = <<>> THEN <<x>>
  ELSE IF NumLt(NumSub(contributions[x], contributions[Head(sorted)]), Zero)
  THEN <<x>> \o sorted
  ELSE <<Head(sorted)>>
         \o insertSortedAscending(contributions, x, Tail(sorted))

\* Array.prototype.sort with the comparator (a, b) => b[1] - a[1]: a stable
\* sort; x goes before the first y for which the comparator is negative
RECURSIVE insertSorted(_, _, _)
insertSorted(contributions, x, sorted) ==
  IF sorted = <<>> THEN <<x>>
  ELSE IF NumLt(NumSub(contributions[Head(sorted)], contributions[x]), Zero)
  THEN <<x>> \o sorted
  ELSE <<Head(sorted)>> \o insertSorted(contributions, x, Tail(sorted))

RECURSIVE sortFrom(_, _, _)
sortFrom(contributions, i, sorted) ==
  IF i > Len(contributionKeys) THEN sorted
  ELSE sortFrom(contributions, i + 1,
                insertSorted(contributions, contributionKeys[i], sorted))

sortedSignals(contributions) == sortFrom(contributions, 1, <<>>)

\* pieces.join(sep)
RECURSIVE join(_, _)
join(items, sep) ==
  IF items = <<>> THEN <<>>
  ELSE IF Len(items) = 1 THEN items[1]
  ELSE items[1] \o sep \o join(Tail(items), sep)

topSignals(contributions) ==
  LET names == SubSeq(sortedSignals(contributions), 1, 2)
  IN  join([i \in 1..Len(names) |-> <<names[i]>>], <<",">>)

\* mutant of reasonList: the calibration statements are pushed before the
\* delta statement
reasonListCalibrationFirst(topic, conf, confBand, dBand, k, delta, calibration, nextStyle) ==
  <<confidenceReason(conf, confBand), knowledgeReason(k)>>
    \o (IF calibration.isOverconfident THEN <<overconfidenceReason>> ELSE <<>>)
    \o (IF calibration.isUnderconfident THEN <<underconfidenceReason>> ELSE <<>>)
    \o <<deltaReason(delta, dBand)>>
    \o (IF nextStyle = "visual" /\ k.mentionsVisual
        THEN <<visualAffinityReason(topic)>> ELSE <<>>)
    \o (IF nextStyle = "quiz" /\ (k.mentionsExamples \/ confBand = "high")
        THEN <<practiceReadinessReason>> ELSE <<>>)

\* mutant of reasonList: the visual-affinity statement does not ask for
\* nextStyle = visual
reasonListAnyStyle(topic, conf, confBand, dBand, k, delta, calibration, nextStyle) ==
  <<confidenceReason(conf, confBand), knowledgeReason(k), deltaReason(delta, dBand)>>
    \o (IF calibration.isOverconfident THEN <<overconfidenceReason>> ELSE <<>>)
    \o (IF calibration.isUnderconfident THEN <<underconfidenceReason>> ELSE <<>>)
    \o (IF k.mentionsVisual THEN <<visualAffinityReason(topic)>> ELSE <<>>)
    \o (IF nextStyle = "quiz" /\ (k.mentionsExamples \/ confBand = "high")
        THEN <<practiceReadinessReason>> ELSE <<>>)

\* the reasons pushed in source order
reasonList(topic, conf, confBand, dBand, k, delta, calibration, nextStyle) ==
  <<confidenceReason(conf, confBand), knowledgeReason(k), deltaReason(delta, dBand)>>
    \o (IF calibration.isOverconfident THEN <<overconfidenceReason>> ELSE <<>>)
    \o (IF calibration.isUnderconfident THEN <<underconfidenceReason>> ELSE <<>>)
    \o (IF nextStyle = "visual" /\ k.mentionsVisual
        THEN <<visualAffinityReason(topic)>> ELSE <<>>)
    \o (IF nextStyle = "quiz" /\ (k.mentionsExamples \/ confBand = "high")
        THEN <<practiceReadinessReason>> ELSE <<>>)

traceLine(startingStyle, nextStyle, conf, confBand, kLabel, delta, dBand, top) ==
  <<"policy=", DECISION_POLICY_VERSION>> \o Separator
    \o <<"start=", startingStyle, " -> ", "next=", nextStyle>> \o Separator
    \o <<"conf=", ToString(conf), "/5(", confBand, ")">> \o Separator
    \o <<"knowledge=", kLabel>> \o Separator
    \o <<"delta=+", ToString(delta), "(", dBand, ")">> \o Separator
    \o <<"top=">> \o top

\* buildExplainability, given the result of its call of decideNextStyle
explainabilityOf(input, styleDecision) ==
  LET topic       == OrElse(normalize(input.topic), <<"the topic">>)
      conf        == clampInt(input.confidence, 1, 5)
      confBand    == confidenceLabel(conf)
      dBand       == deltaBand(input.delta)
      k           == detectKnowledgeSignals(input.priorKnowledge)
      nextStyle   == styleDecision.nextStyle
      calibration == detectCalibration(conf, input.delta)
      kLabel      == knowledgeLabel(input.priorKnowledge)
  IN  [decision      |-> decisionTitle(nextStyle),
       nextStyle     |-> nextStyle,
       reasons       |-> reasonList(topic, conf, confBand, dBand, k,
                                    input.delta, calibration, nextStyle),
       decisionTrace |-> traceLine(input.startingStyle, nextStyle, conf,
                                   confBand, kLabel, input.delta, dBand,
                                   topSignals(styleDecision.contributions))]

buildExplainability(input) == explainabilityOf(input, decideNextStyle(input))

(***************************************************************************)
(* src/lib/explain.ts: buildTutorInsight                                   *)
(***************************************************************************)
knowledgeTierOf(k) ==
  IF k.isEmpty THEN "unknown"
  ELSE IF k.mentionsAdvanced /\ ~k.mentionsBeginner THEN "advanced"
  ELSE IF k.mentionsBeginner /\ ~k.mentionsAdvanced THEN "beginner"
  ELSE "intermediate"

openerLine(dBand, topic) ==
  IF dBand = "large"
  THEN <<"You made a strong jump on ">> \o topic \o <<".">>
  ELSE IF dBand = "moderate"
  THEN <<"You're building momentum on ">> \o topic \o <<".">>
  ELSE <<"You're getting started on ">> \o topic
         \o <<", and the signals are useful already.">>

knowledgeLine(knowledgeTier, k) ==
  IF knowledgeTier = "unknown"
  THEN <<"Prior knowledge: I didn't get much detail, so I'll confirm the basics first.">>
  ELSE IF knowledgeTier = "advanced"
  THEN <<"Prior knowledge: you seem advanced (\"">> \o k.priorKnowledge
         \o <<"\"). I'll skip definitions and focus on edge-cases + application.">>
  ELSE IF knowledgeTier = "beginner"
  THEN <<"Prior knowledge: you seem beginner (\"">> \o k.priorKnowledge
         \o <<"\"). I'll go step-by-step with simple examples.">>
  ELSE <<"Prior knowledge: you seem mixed (\"">> \o k.priorKnowledge
         \o <<"\"). I'll keep it concise and use quick checks to locate gaps.">>

confidenceLine(conf) ==
  <<"Confidence: ", ToString(conf)>>
    \o (IF conf = 1
        THEN <<"/5 (very low). We'll go slowly, with lots of worked examples and \"why\" explanations.">>
        ELSE IF conf = 2
        THEN <<"/5 (low). We'll use smaller steps and frequent checks so you don't get stuck.">>
        ELSE IF conf = 3
        THEN <<"/5 (medium). We'll keep a steady pace with checkpoints in common confusion spots.">>
        ELSE IF conf = 4
        THEN <<"/5 (high). We'll move faster and switch to practice sooner.">>
        ELSE <<"/5 (very high). Expect challenge questions and fewer hints.">>)

overconfidentNote ==
  <<"Calibration note: your confidence is high, but the learning delta is small. I'll slow the ramp and make the model explicit before adding more practice.">>

underconfidentNote ==
  <<"Calibration note: your confidence is low, but the learning delta is large. You're performing stronger than you're rating yourself--so we'll introduce practice a bit earlier.">>

alignedNote ==
  <<"Calibration note: your confidence and learning delta appear aligned.">>

calibrationLine(calibration) ==
  IF calibration.isOverconfident THEN overconfidentNote
  ELSE IF calibration.isUnderconfident THEN underconfidentNote
  ELSE alignedNote

profileLine(knowledgeTier, conf, delta, dBand) ==
  <<"Profile: knowledge=", knowledgeTier>> \o Separator
    \o <<"confidence=", ToString(conf), "/5">> \o Separator
    \o <<"delta=+", ToString(delta), " (", dBand, ").">>

adaptationLine(style, delta) ==
  <<"Because your learning delta was +", ToString(delta),
    ", the system chose ", styleLabel(style)>>
    \o (IF style = "visual"
        THEN <<" to make the mental model click before you grind problems.">>
        ELSE IF style = "text"
        THEN <<" so you can build consistency without changing formats mid-stream.">>
        ELSE <<"--that's the fastest way to expose what's solid vs. what needs review.">>)

nudgeLine(style) ==
  IF style = "quiz"
  THEN <<"Tip: if you miss a question, don't push through--pause and explain the \"why\" in one sentence first.">>
  ELSE IF style = "visual"
  THEN <<"Tip: as you watch the diagram, narrate each step out loud once. That's where understanding becomes durable.">>
  ELSE <<"Tip: after each section, write a 1-line summary in your own words. That's the quickest comprehension check.">>

depthPlan(knowledgeTier, conf) ==
  IF knowledgeTier = "beginner"
  THEN IF conf <= 2
       THEN <<"Plan: start with 2-3 ultra-simple examples, then you do 1 guided example with hints.">>
       ELSE <<"Plan: start with 1-2 simple examples, then you do 2 short practice checks.">>
  ELSE IF knowledgeTier = "advanced"
  THEN IF conf >= 4
       THEN <<"Plan: jump straight to challenge problems and edge-cases; we'll only revisit basics if a miss repeats.">>
       ELSE <<"Plan: do 1 compact refresher, then shift quickly into practice and targeted fixes.">>
  ELSE IF knowledgeTier = "intermediate"
  THEN IF conf <= 2
       THEN <<"Plan: do a quick refresher of the core model, then 2 small checks to rebuild confidence.">>
       ELSE <<"Plan: do a quick recap, then practice with short checkpoints to find weak spots.">>
  ELSE IF conf <= 2
       THEN <<"Plan: I'll confirm basics with a few quick questions, then we'll build up slowly.">>
       ELSE <<"Plan: I'll start with a short baseline check, then adapt depth based on what you get right.">>

microTask(conf) ==
  IF conf <= 2
  THEN <<"Micro-task: after each step, answer \"what does this mean?\" in 1 sentence (no pressure on speed).">>
  ELSE IF conf = 3
  THEN <<"Micro-task: after each section, do 1 quick check question before moving on.">>
  ELSE <<"Micro-task: do 3 rapid-fire checks; if you miss one, explain the mistake in 1 sentence and continue.">>

\* mutant of planLines: the micro-task is not pushed
planLinesDepthOnly(knowledgeTier, conf) == <<depthPlan(knowledgeTier, conf)>>

planLines(knowledgeTier, conf) ==
  <<depthPlan(knowledgeTier, conf), microTask(conf)>>

\* the array that buildTutorInsight joins
insightSegments(input, styleDecision) ==
  LET topic         == OrElse(normalize(input.topic), <<"this topic">>)
      conf          == clampInt(input.confidence, 1, 5)
      dBand         == deltaBand(input.delta)
      k             == detectKnowledgeSignals(input.priorKnowledge)
      style         == styleDecision.nextStyle
      calibration   == detectCalibration(conf, input.delta)
      knowledgeTier == knowledgeTierOf(k)
  IN  <<openerLine(dBand, topic),
        profileLine(knowledgeTier, conf, input.delta, dBand),
        knowledgeLine(knowledgeTier, k),
        confidenceLine(conf),
        calibrationLine(calibration),
        adaptationLine(style, input.delta)>>
        \o planLines(knowledgeTier, conf)
        \o <<nudgeLine(style), nextStepPreview(style, topic)>>

\* mutant of tutorInsightOf: the insight is keyed by the starting style
tutorInsightOfStartingStyle(input, styleDecision) ==
  join(insightSegments(input,
         [styleDecision EXCEPT !.nextStyle = input.startingStyle]), <<"\n">>)

\* buildTutorInsight, given the result of its call of decideNextStyle
tutorInsightOf(input, styleDecision) ==
  join(insightSegments(input, styleDecision), <<"\n">>)

buildTutorInsight(input) == tutorInsightOf(input, decideNextStyle(input))

(***************************************************************************)
(* src/app/result/page.tsx: the "Most influential signals" line            *)
(***************************************************************************)
\* text.includes(piece), for a piece that parts of the text are made of
has(text, piece) == \E i \in 1..Len(text) : text[i] = piece

\* text.split(piece)[0]
before(text, piece) ==
  IF has(text, piece)
  THEN SubSeq(text, 1, (CHOOSE i \in 1..Len(text) :
                          text[i] = piece /\ \A j \in 1..(i - 1) : text[j] # piece) - 1)
  ELSE text

\* text.split(piece)[1], for a text that includes the piece
after(text, piece) ==
  LET i == CHOOSE i \in 1..Len(text) :
             text[i] = piece /\ \A j \in 1..(i - 1) : text[j] # piece
  IN  before(SubSeq(text, i + 1, Len(text)), piece)

mostInfluentialSignals(decisionTrace) ==
  IF has(decisionTrace, "top=")
  THEN trim(before(after(decisionTrace, "top="), "|"))
  ELSE <<"--">>

(***************************************************************************)
(* The requests the model serves.  Confidence and delta are integers; the  *)
(* engine clamps confidence itself, so values outside 1..5 are requests    *)
(* too, and so are negative deltas and deltas past the saturation point.   *)
(***************************************************************************)
ConfSlack == 1

MaxNegDelta == 5

MaxDelta == 65

DeltaStep == 5

Confidences == (1 - ConfSlack)..(5 + ConfSlack)

Deltas == {d \in (0 - MaxNegDelta)..MaxDelta : d % DeltaStep = 0}

Topics == {<<>>, <<"S", "e", "t", "s">>}

PriorKnowledgeTexts ==
  {<<" ">>,
   <<"B", "a", "s", "i", "c">>,
   <<"E", "x", "p", "e", "r", "t", " ">>,
   <<"n", "e", "w", " ", "e", "x", "p", "e", "r", "t">>,
   <<"g", "r", "a", "p", "h">>,
   <<"q", "u", "i", "z">>}

Inputs ==
  [topic          : Topics,
   priorKnowledge : PriorKnowledgeTexts,
   confidence     : Confidences,
   delta          : Deltas,
   startingStyle  : LessonStyle]

(***************************************************************************)
(* State: one request and what has been computed for it so far.            *)
(*   input           the ExplainInput of the request                       *)
(*   pc              how far the request has got                           *)
(*   styleDecision   what decideNextStyle returned to buildExplainability  *)
(*   explainability  what buildExplainability returned                     *)
(*   tutorMessage    what buildTutorInsight returned                       *)
(*   shownSignals    the "Most influential signals" text of the page       *)
(***************************************************************************)
VARIABLES input, pc, styleDecision, explainability, tutorMessage, shownSignals

vars == <<input, pc, styleDecision, explainability, tutorMessage, shownSignals>>

NoDecision ==
  [nextStyle     |-> "",
   scores        |-> [s \in LessonStyle |-> NumZero],
   contributions |-> [delta |-> NumZero, confidence |-> NumZero,
                      priorKnowledge |-> NumZero, startingStyle |-> NumZero]]

NoExplainability ==
  [decision |-> "", nextStyle |-> "", reasons |-> <<>>, decisionTrace |-> <<>>]

Init ==
  /\ input \in Inputs
  /\ pc = "request"
  /\ styleDecision = NoDecision
  /\ explainability = NoExplainability
  /\ tutorMessage = <<>>
  /\ shownSignals = <<>>

\* computeExplainability(input): buildExplainability with its one call of
\* decideNextStyle
ComputeExplainability ==
  /\ pc = "request"
  /\ LET decided == decideNextStyle(input)
     IN  /\ styleDecision' = decided
         /\ explainability' = explainabilityOf(input, decided)
  /\ pc' = "explained"
  /\ UNCHANGED <<input, tutorMessage, shownSignals>>

\* computeTutorInsight(input): buildTutorInsight, which calls decideNextStyle
\* again
ComputeTutorInsight ==
  /\ pc = "explained"
  /\ tutorMessage' = buildTutorInsight(input)
  /\ pc' = "insight"
  /\ UNCHANGED <<input, styleDecision, explainability, shownSignals>>

\* the result page extracts the top signals from the trace
RenderResult ==
  /\ pc = "insight"
  /\ shownSignals' = mostInfluentialSignals(explainability.decisionTrace)
  /\ pc' = "rendered"
  /\ UNCHANGED <<input, styleDecision, explainability, tutorMessage>>

Next == ComputeExplainability \/ ComputeTutorInsight \/ RenderResult

Spec == Init /\ [][Next]_vars

(***************************************************************************)
(* The delta terms as a function of delta alone.  ExplainInput.delta is a  *)
(* number, so the deltas here are binary64 values: the integers up to      *)
(* MaxDelta and, for some of them, the next few binary64 values above.     *)
(* In this specification input is a pair of deltas <<d1, d2>> with         *)
(* d1 < d2, and styleDecision holds for each of the two the terms that     *)
(* decideNextStyle adds to scores.visual and scores.quiz for it.           *)
(***************************************************************************)
MaxUlps == 1

\* x > 0 with its significand widened by s bits and advanced by k
UlpsAbove(x, k, s) ==
  Canon(FALSE, BAdd(BShl(x.man, s), BFromNat(k)), x.exp - s)

\* the k-th binary64 value above x > 0
NextUp(x, k) == UlpsAbove(x, k, Precision - BBitLen(x.man))

DeltaValues ==
  {NumFromInt(d) : d \in 0..MaxDelta}
    \cup {NextUp(NumFromInt(d), k) :
            d \in {e \in 1..MaxDelta : e % DeltaStep = 0}, k \in 1..MaxUlps}

DeltaPairs == {p \in DeltaValues \X DeltaValues : NumLt(p[1], p[2])}

\* what decideNextStyle adds to scores.visual and scores.quiz for deltaN
deltaTerms(deltaN) ==
  [visual |-> visualDeltaTerm(deltaN), quiz |-> quizDeltaTerm(deltaN)]

DeltaInit ==
  /\ input \in DeltaPairs
  /\ pc = "deltas"
  /\ styleDecision = NoDecision
  /\ explainability = NoExplainability
  /\ tutorMessage = <<>>
  /\ shownSignals = <<>>

\* deltaScore and the two delta terms, for both deltas of the pair
ComputeDeltaTerms ==
  /\ pc = "deltas"
  /\ styleDecision' = [i \in {1, 2} |-> deltaTerms(deltaScoreOf(input[i]))]
  /\ pc' = "terms"
  /\ UNCHANGED <<input, explainability, tutorMessage, shownSignals>>

DeltaNext == ComputeDeltaTerms

DeltaSpec == DeltaInit /\ [][DeltaNext]_vars

(***************************************************************************)
(* Properties                                                              *)
(***************************************************************************)
Explained == pc \in {"explained", "insight", "rendered"}

InsightDone == pc \in {"insight", "rendered"}

\* text.split("\n"), for a text in which a line break is a piece
RECURSIVE lines(_)
lines(text) ==
  IF has(text, "\n")
  THEN <<before(text, "\n")>>
         \o lines(SubSeq(text, Len(before(text, "\n")) + 2, Len(text)))
  ELSE <<text>>

\* the pieces that follow the piece field in a line, up to the next separator
fieldOf(text, field) == trim(before(after(text, field), "|"))

ClampedConfidence ==
  IF input.confidence < 1 THEN 1
  ELSE IF input.confidence > 5 THEN 5 ELSE input.confidence

\* the scores decideNextStyle reaches for the request before calibration,
\* with kLabel as the knowledge class
ScoresBeforeCalibration(kLabel) ==
  weightedScores(confidenceScore(input.confidence), deltaScore(input.delta),
                 kLabel, input.startingStyle)

TieBreakOrder == <<"text", "visual", "quiz">>

PlaceOf(style) == CHOOSE i \in 1..Len(TieBreakOrder) : TieBreakOrder[i] = style

\* C1: the nextStyle that decideNextStyle returns and buildExplainability
\* reports has a maximal final score, and among the styles that share the
\* maximal score it is the first in the order text, visual, quiz.
C1_MaximalScoreFirstInOrder ==
  Explained =>
    LET winner == explainability.nextStyle
        scores == styleDecision.scores
    IN  /\ winner \in LessonStyle
        /\ winner = styleDecision.nextStyle
        /\ \A s \in LessonStyle :
             /\ ~NumGt(scores[s], scores[winner])
             /\ NumCmp(scores[s], scores[winner]) = 0
                  => PlaceOf(winner) <= PlaceOf(s)

\* a request decided by the tie-break: two styles share the maximal score
C1_Witness ==
  /\ pc = "explained"
  /\ \E s \in LessonStyle :
       /\ s # explainability.nextStyle
       /\ NumCmp(styleDecision.scores[s],
                 styleDecision.scores[explainability.nextStyle]) = 0

\* C2: for a confidence below 1 or above 5, buildExplainability and
\* buildTutorInsight return what they return for confidence 1 or 5, the
\* other fields being the same.
C2_OutOfRangeConfidenceAsNearestBound ==
  (input.confidence < 1 \/ input.confidence > 5) =>
    LET nearest == [input EXCEPT !.confidence = ClampedConfidence]
    IN  /\ pc = "explained" => explainability = buildExplainability(nearest)
        /\ pc = "insight" => tutorMessage = buildTutorInsight(nearest)

\* both functions have answered a request whose confidence is out of range
C2_Witness ==
  /\ pc = "insight"
  /\ input.confidence > 5
  /\ explainability.nextStyle = "quiz"

\* C3: for a negative delta, buildExplainability and buildTutorInsight return
\* what they return for delta = 0, the other fields being the same.
C3_NegativeDeltaAsZero ==
  input.delta < 0 =>
    LET zeroed == [input EXCEPT !.delta = 0]
    IN  /\ pc = "explained" => explainability = buildExplainability(zeroed)
        /\ pc = "insight" => tutorMessage = buildTutorInsight(zeroed)

\* C4: detectCalibration never reports overconfidence and underconfidence
\* together, and the final scores are the scores before calibration with at
\* most one of the two adjustment blocks applied.
C4_AtMostOneCalibrationAdjustment ==
  pc = "explained" =>
    LET calibration == detectCalibration(input.confidence, input.delta)
        base == ScoresBeforeCalibration(knowledgeLabel(input.priorKnowledge))
    IN  /\ ~(calibration.isOverconfident /\ calibration.isUnderconfident)
        /\ styleDecision.scores \in
             {base, adjustOverconfident(base), adjustUnderconfident(base)}

\* an underconfident request: exactly the underconfidence block was applied
C4_Witness ==
  /\ pc = "explained"
  /\ detectCalibration(input.confidence, input.delta).isUnderconfident
  /\ LET base == ScoresBeforeCalibration(knowledgeLabel(input.priorKnowledge))
     IN  /\ styleDecision.scores = adjustUnderconfident(base)
         /\ styleDecision.scores # base

SignalNames == {"delta", "confidence", "priorKnowledge", "startingStyle"}

\* C6: the top= field ends decisionTrace and lists two distinct signal names,
\* separated by a comma: the two signals of largest influence magnitude, the
\* larger first.  The page shows that field.
C6_TopTwoSignals ==
  pc = "rendered" =>
    LET trace  == explainability.decisionTrace
        top    == shownSignals
        weight == styleDecision.contributions
    IN  /\ Len(top) = 3
        /\ Len(trace) > 4
        /\ trace[Len(trace) - 3] = "top="
        /\ SubSeq(trace, Len(trace) - 2, Len(trace)) = top
        /\ top[1] \in SignalNames
        /\ top[2] = ","
        /\ top[3] \in SignalNames
        /\ top[1] # top[3]
        /\ ~NumLt(weight[top[1]], weight[top[3]])
        /\ \A n \in SignalNames \ {top[1], top[3]} :
             ~NumGt(weight[n], weight[top[3]])

\* a request whose most influential signal is the confidence
C6_Witness ==
  /\ pc = "rendered"
  /\ shownSignals = <<"confidence", ",", "delta">>

\* the four-way class of the request's prior-knowledge text
KnowledgeClass ==
  LET text     == toLowerCase(trim(input.priorKnowledge))
      advanced == \E k \in AdvancedKeywords : includes(text, k)
      beginner == \E k \in BeginnerKeywords : includes(text, k)
  IN  IF text = <<>> THEN "unknown"
      ELSE IF advanced /\ ~beginner THEN "advanced"
      ELSE IF beginner /\ ~advanced THEN "beginner"
      ELSE "mixed"

KnowledgeReasonOpening ==
  [unknown  |-> "Because your prior knowledge response was brief, the system assumed we should validate foundations before moving fast.",
   advanced |-> "Because your prior knowledge indicates familiarity (\"",
   beginner |-> "Because your prior knowledge indicates you're early in the topic (\"",
   mixed    |-> "Because your prior knowledge indicates mixed familiarity (\""]

KnowledgeLineOpening ==
  [unknown  |-> "Prior knowledge: I didn't get much detail, so I'll confirm the basics first.",
   advanced |-> "Prior knowledge: you seem advanced (\"",
   beginner |-> "Prior knowledge: you seem beginner (\"",
   mixed    |-> "Prior knowledge: you seem mixed (\""]

TierName ==
  [unknown |-> "unknown", advanced |-> "advanced", beginner |-> "beginner",
   mixed |-> "intermediate"]

\* C7: the class is unknown iff the trimmed text is empty, advanced iff an
\* advanced keyword is present and no beginner keyword, beginner iff the
\* reverse, mixed otherwise; the knowledge= label of the trace, the knowledge
\* statement in reasons, the score contribution and the knowledge line and
\* profile of the tutor insight all follow that one class.
C7_OneKnowledgeClass ==
  pc = "insight" =>
    LET class    == KnowledgeClass
        base     == ScoresBeforeCalibration(class)
        insight  == lines(tutorMessage)
    IN  /\ fieldOf(explainability.decisionTrace, "knowledge=") = <<class>>
        /\ explainability.reasons[2][1] = KnowledgeReasonOpening[class]
        /\ styleDecision.scores \in
             {base, adjustOverconfident(base), adjustUnderconfident(base)}
        /\ insight[3][1] = KnowledgeLineOpening[class]
        /\ fieldOf(insight[2], "Profile: knowledge=") = <<TierName[class]>>

\* a text with an advanced and a beginner keyword, answered as mixed
C7_Witness ==
  /\ pc = "insight"
  /\ \E k \in AdvancedKeywords : includes(toLowerCase(input.priorKnowledge), k)
  /\ \E k \in BeginnerKeywords : includes(toLowerCase(input.priorKnowledge), k)
  /\ fieldOf(explainability.decisionTrace, "knowledge=") = <<"mixed">>

HasReason(reason) ==
  \E i \in 1..Len(explainability.reasons) : explainability.reasons[i] = reason

\* C8: reasons holds the overconfidence statement exactly when the clamped
\* confidence is at least 4 and delta is below 20, the underconfidence
\* statement exactly when the clamped confidence is at most 2 and delta is at
\* least 40; the calibration line of the tutor insight is the matching
\* message, and the aligned message exactly when reasons holds neither.
C8_CalibrationStatements ==
  InsightDone =>
    LET note == lines(tutorMessage)[5]
    IN  /\ HasReason(overconfidenceReason)
             <=> (ClampedConfidence >= 4 /\ input.delta < 20)
        /\ HasReason(underconfidenceReason)
             <=> (ClampedConfidence <= 2 /\ input.delta >= 40)
        /\ HasReason(overconfidenceReason) => note = overconfidentNote
        /\ HasReason(underconfidenceReason) => note = underconfidentNote
        /\ note = alignedNote
             <=> (~HasReason(overconfidenceReason)
                  /\ ~HasReason(underconfidenceReason))

\* an overconfident request, answered by both functions
C8_Witness ==
  /\ pc = "insight"
  /\ HasReason(overconfidenceReason)
  /\ lines(tutorMessage)[5] = overconfidentNote

\* the clause of a reason, by the text it opens with: 1 confidence,
\* 2 knowledge, 3 delta, 4 overconfidence, 5 underconfidence,
\* 6 visual affinity, 7 practice readiness, 0 none of them
ClauseOf(reason) ==
  IF reason[1] = "Based on your confidence level (" THEN 1
  ELSE IF \E c \in DOMAIN KnowledgeReasonOpening :
            reason[1] = KnowledgeReasonOpening[c] THEN 2
  ELSE IF reason[1] = "The system inferred that your learning delta (+" THEN 3
  ELSE IF reason = overconfidenceReason THEN 4
  ELSE IF reason = underconfidenceReason THEN 5
  ELSE IF reason[1] = "You mentioned visual learning cues, so the system prioritized diagrams to reduce cognitive load for " THEN 6
  ELSE IF reason = practiceReadinessReason THEN 7
  ELSE 0

\* C9: reasons has 3 to 6 entries; the first three are the confidence
\* statement, one knowledge statement and the delta statement; the
\* conditional statements follow in clause order.
C9_ReasonsShape ==
  Explained =>
    LET reasons == explainability.reasons
    IN  /\ Len(reasons) >= 3
        /\ Len(reasons) <= 6
        /\ ClauseOf(reasons[1]) = 1
        /\ ClauseOf(reasons[2]) = 2
        /\ ClauseOf(reasons[3]) = 3
        /\ \A i \in 4..Len(reasons) : ClauseOf(reasons[i]) >= 4
        /\ \A i, j \in 1..Len(reasons) :
             i < j => ClauseOf(reasons[i]) < ClauseOf(reasons[j])

\* a request with two conditional statements after the fixed three
C9_Witness ==
  /\ pc = "explained"
  /\ Len(explainability.reasons) = 5
  /\ ClauseOf(explainability.reasons[4]) = 4
  /\ ClauseOf(explainability.reasons[5]) = 6

\* C10 as claimed: the tutor insight is 7 to 9 segments joined by line breaks.
C10_SevenToNineSegments ==
  InsightDone =>
    /\ Len(lines(tutorMessage)) >= 7
    /\ Len(lines(tutorMessage)) <= 9

\* C10 as amended: the tutor insight is exactly 10 segments joined by line
\* breaks (opener, profile, knowledge, confidence, calibration, adaptation,
\* two plan lines, nudge, next-step preview).
C10_TenSegments ==
  InsightDone =>
    LET insight == lines(tutorMessage)
    IN  /\ Len(insight) = 10
        /\ insight[7][1] \in {depthPlan(t, c)[1] :
                               t \in {"unknown", "beginner", "intermediate", "advanced"},
                               c \in 1..5}
        /\ insight[8] \in {microTask(c) : c \in 1..5}

\* a tutor insight has been composed
C10_Witness ==
  /\ pc = "insight"
  /\ Len(lines(tutorMessage)) = 10
  /\ lines(tutorMessage)[8] = microTask(3)

\* the binary64 value x is an integer (its significand is odd or zero)
IsInteger(x) == x.exp >= 0

\* C11 as claimed: for deltas d1 < d2 up to 60 the quiz term is strictly
\* larger and the visual term strictly smaller at d2; from 60 on both terms
\* no longer change.
C11_DeltaTermsStrictlyMonotone ==
  pc = "terms" =>
    LET at1 == styleDecision[1]
        at2 == styleDecision[2]
    IN  /\ ~NumGt(input[2], Sixty)
             => NumLt(at1.quiz, at2.quiz) /\ NumGt(at1.visual, at2.visual)
        /\ ~NumLt(input[1], Sixty) => at1 = at2

\* C11 as amended: for deltas d1 < d2 the quiz term is never smaller and the
\* visual term never larger at d2; for integer deltas up to 60 the quiz term
\* is strictly larger and the visual term strictly smaller at d2; from 60 on
\* both terms no longer change.
C11_DeltaTermsMonotone ==
  pc = "terms" =>
    LET at1 == styleDecision[1]
        at2 == styleDecision[2]
    IN  /\ ~NumLt(at2.quiz, at1.quiz)
        /\ ~NumGt(at2.visual, at1.visual)
        /\ (IsInteger(input[1]) /\ IsInteger(input[2])
              /\ ~NumGt(input[2], Sixty))
             => NumLt(at1.quiz, at2.quiz) /\ NumGt(at1.visual, at2.visual)
        /\ ~NumLt(input[1], Sixty) => at1 = at2

\* two deltas one binary64 step apart whose visual terms are equal
C11_Witness ==
  /\ pc = "terms"
  /\ IsInteger(input[1])
  /\ input[2] = NextUp(input[1], 1)
  /\ NumLt(input[2], Sixty)
  /\ NumLt(styleDecision[1].quiz, styleDecision[2].quiz)
  /\ styleDecision[1].visual = styleDecision[2].visual

\* C12 as claimed: when the request is overconfident (clamped confidence at
\* least 4 and delta below 20) nextStyle is never quiz, and reasons never
\* holds both the overconfidence statement and the practice-readiness
\* statement.
C12_OverconfidentNeverQuiz ==
  (Explained /\ ClampedConfidence >= 4 /\ input.delta < 20) =>
    /\ explainability.nextStyle # "quiz"
    /\ ~(HasReason(overconfidenceReason) /\ HasReason(practiceReadinessReason))

\* the request with startingStyle replaced by the style decided for it
FedBack == [input EXCEPT !.startingStyle = styleDecision.nextStyle]

\* C13: decideNextStyle returns the same nextStyle for the request whose
\* startingStyle is replaced by the nextStyle it returned.
C13_DecisionIsFixedPoint ==
  pc = "explained" =>
    decideNextStyle(FedBack).nextStyle = styleDecision.nextStyle

\* a request that moves away from its starting style although the bias
\* decides it: with another starting style the decision is another
C13_Witness ==
  /\ pc = "explained"
  /\ input.startingStyle # styleDecision.nextStyle
  /\ \E s \in LessonStyle :
       decideNextStyle([input EXCEPT !.startingStyle = s]).nextStyle
         # styleDecision.nextStyle

\* C14: the adaptation line, the nudge line and the next-step preview of the
\* tutor insight are those of one style and of no other, and that style is
\* the nextStyle buildExplainability returns and writes after next= in
\* decisionTrace.
C14_InsightKeyedByNextStyle ==
  pc = "insight" =>
    LET style   == explainability.nextStyle
        insight == lines(tutorMessage)
    IN  /\ style \in LessonStyle
        /\ fieldOf(explainability.decisionTrace, "next=") = <<style>>
        /\ insight[6] = adaptationLine(style, input.delta)
        /\ insight[9] = nudgeLine(style)
        /\ insight[10] = nextStepPreview(style, input.topic)
        /\ \A other \in LessonStyle \ {style} :
             /\ insight[6] # adaptationLine(other, input.delta)
             /\ insight[9] # nudgeLine(other)
             /\ insight[10] # nextStepPreview(other, input.topic)

\* a tutor insight for a request decided away from its starting style
C14_Witness ==
  /\ pc = "insight"
  /\ input.startingStyle = "quiz"
  /\ explainability.nextStyle = "visual"
  /\ lines(tutorMessage)[9] = nudgeLine("visual")

\* reasons holds a statement of clause n (see ClauseOf)
HasClause(n) ==
  \E i \in 1..Len(explainability.reasons) :
    ClauseOf(explainability.reasons[i]) = n

\* C15: reasons never holds both the visual-affinity and the
\* practice-readiness statement, holds at most one calibration statement,
\* and so has at most 5 entries.
C15_AtMostFiveReasons ==
  Explained =>
    /\ ~(HasClause(6) /\ HasClause(7))
    /\ ~(HasClause(4) /\ HasClause(5))
    /\ Len(explainability.reasons) <= 5

\* five reasons: the underconfidence and the practice-readiness statement
\* after the fixed three
C15_Witness ==
  /\ pc = "explained"
  /\ Len(explainability.reasons) = 5
  /\ HasClause(5)
  /\ HasClause(7)

\* C16: startingStyle is never named in the top= field of decisionTrace; its
\* influence magnitude is strictly smaller than that of delta, of confidence
\* and of priorKnowledge, and the two names reported are two of those three.
C16_StartingStyleNeverTop ==
  Explained =>
    LET trace  == explainability.decisionTrace
        top    == SubSeq(trace, Len(trace) - 2, Len(trace))
        weight == styleDecision.contributions
    IN  /\ trace[Len(trace) - 3] = "top="
        /\ \A i \in 1..Len(top) : top[i] # "startingStyle"
        /\ {top[1], top[3]} \subseteq {"delta", "confidence", "priorKnowledge"}
        /\ \A n \in {"delta", "confidence", "priorKnowledge"} :
             NumLt(weight.startingStyle, weight[n])

\* the request whose three other magnitudes are all at their smallest:
\* delta 30, confidence 3, mixed prior knowledge
C16_Witness ==
  /\ pc = "explained"
  /\ input.delta = 30
  /\ ClampedConfidence = 3
  /\ KnowledgeClass = "mixed"
  /\ styleDecision.contributions.delta = NumMul(weights.delta, Quarter)

====
